---- MODULE Spec2Model ----
(***************************************************************************)
(* The EDR printer: the six-step login sequencer, the report fetcher and   *)
(* the batch drivers of edr_report_generator.py, automated_edr_printer.py  *)
(* and enhanced_edr_printer.py, as one sequential state machine.           *)
(*                                                                         *)
(* One top-level call runs at a time (the program is single-threaded).     *)
(* `log` is the trace of the external interactions of the current          *)
(* top-level call: login steps, the operator prompt, fetch and browse      *)
(* requests, renders, saves and prints, in the order the code issues them. *)
(***************************************************************************)
EXTENDS Integers, Sequences, FiniteSets, TLC

\* ---------------------------------------------------------------- bounds
MaxEvents == 2          \* longest event_ids list
MaxCookies == 1         \* most auth-token cookies held by the session jar
MaxItems == 2           \* longest itemDetails list of a payload

\* ---------------------------------------------------------------- values
NoneTok == "<None>"     \* Python None, the constructor's auth_token
LoginTok == "tokA"      \* the token carried by a well-formed auth-token cookie
ManualTok == "tokM"     \* a token obtained out of band
EventIds == {"e1", "e2"}

\* Python truthiness of auth_token: `if not self.auth_token`
Truthy(tok) == tok \notin {NoneTok, ""}

\* HTTP outcomes of one request: status 200, another non-error status,
\* a 4xx/5xx status, or a transport error (RequestException).
Responses == {"200", "2xx", "err", "neterr"}

\* What the auth-token cookies of the session can hold (the cookie value after
\* urllib.parse.unquote):
\*   empty      cookie.value is falsy
\*   badjson    json.loads raises JSONDecodeError
\*   nonobj     valid JSON that is not an object (no .get)
\*   notoken    a JSON object without a "token" field (or with null)
\*   emptytoken {"token": ""}
\*   tok        {"token": "tokA"}
CookieKinds == {"empty", "badjson", "nonobj", "notoken", "emptytoken", "tok"}

SeqsUpTo(S, n) == UNION {[1..k -> S] : k \in 0..n}
Jars == SeqsUpTo(CookieKinds, MaxCookies)
EventLists == SeqsUpTo(EventIds, MaxEvents)

\* What response.json() does on a body that is not JSON. requests >= 2.27
\* raises requests.exceptions.JSONDecodeError, a RequestException that is also
\* a json.JSONDecodeError unless simplejson is installed; older versions raise
\* the json (or simplejson) error itself. The build decides.
\*   json      the body parses
\*   inner     the error is a json.JSONDecodeError
\*   outer     the error is a RequestException but no json.JSONDecodeError
\*   escapes   the error is neither
Bodies == {"json", "inner", "outer", "escapes"}

VARIABLES
    auth_token,   \* EDRReportGenerator.auth_token
    pc,           \* position of the running top-level call
    op,           \* the running top-level call
    args,         \* its arguments
    tok0,         \* auth_token when the top-level call started
    stepres,      \* outcome of each login step of this call
    s6in,         \* the step-6 response and the auth-token cookies the session
                  \* jar holds when step 6 reads it
    authres,      \* outcome of authenticate()
    idx,          \* loop position in event_ids (1-based)
    results,      \* process_event_list's results dict
    event_data_list, \* run_enhanced_batch's collected records
    html_reports, \* run_enhanced_batch's rendered reports
    summary,      \* the counts print_summary prints
    ret,          \* outcome of the top-level call
    log,          \* external interactions of this call, in order
    fn,           \* the function a unit-level call applies (describe, render, print)
    inp,          \* its input
    outp          \* what it returned and did

vars == <<auth_token, pc, op, args, tok0, stepres, s6in, authres, idx,
          results, event_data_list, html_reports, summary, ret, log,
          fn, inp, outp>>

\* the variables of the unit-level calls, which the batch program leaves alone
unit == <<fn, inp, outp>>

NoArgs == [ids |-> <<>>, authenticate |-> FALSE, save |-> FALSE, print |-> FALSE]
NoSteps == [n \in 1..6 |-> "none"]
NoS6 == [resp |-> "none", body |-> "none", jar |-> <<>>]
NoSummary == [total |-> -1, successful |-> -1, failed |-> -1]

\* one external interaction: what (k), for which event identifier (id), under
\* which auth_token (tok), and how it ended (out)
Entry(k, id, tok, out) == [k |-> k, id |-> id, tok |-> tok, out |-> out]
StepName(n) == <<"step1", "step2", "step3", "step4", "step5", "step6">>[n]
StepKinds == {StepName(n) : n \in 1..6}

Init ==
    /\ auth_token = NoneTok
    /\ pc = "idle"
    /\ op = "none"
    /\ args = NoArgs
    /\ tok0 = NoneTok
    /\ stepres = NoSteps
    /\ s6in = NoS6
    /\ authres = "none"
    /\ idx = 0
    /\ results = <<>>
    /\ event_data_list = <<>>
    /\ html_reports = <<>>
    /\ summary = NoSummary
    /\ ret = "none"
    /\ log = <<>>
    /\ fn = "none"
    /\ inp = <<>>
    /\ outp = <<>>

\* A top-level call starts from the idle program with fresh per-call state.
Begin(o, a, p) ==
    /\ UNCHANGED unit
    /\ pc = "idle"
    /\ op' = o
    /\ args' = a
    /\ pc' = p
    /\ tok0' = auth_token
    /\ stepres' = NoSteps
    /\ s6in' = NoS6
    /\ authres' = "none"
    /\ idx' = 1
    /\ results' = <<>>
    /\ event_data_list' = <<>>
    /\ html_reports' = <<>>
    /\ summary' = NoSummary

\* (variant: the record of an identifier already in the dictionary is kept)
PutIfAbsent(f, k, v) ==
    [x \in DOMAIN f \cup {k} |-> IF x \in DOMAIN f THEN f[x] ELSE v]

Put(f, k, v) == [x \in DOMAIN f \cup {k} |-> IF x = k THEN v ELSE f[x]]

\* ------------------------------------------------------- login sequencer

\* steps 1-3: response.raise_for_status() raises on 4xx/5xx, and a transport
\* error is a RequestException too
RaiseForStatusOK(resp) == resp \in {"200", "2xx"}

\* step 4: only status 200 counts
Step4OK(resp) == resp = "200"

\* step 5: the portal page, then (only after a 200) the landing page
Step5SendsSecond(r1) == r1 = "200"
Step5OK(r1, r2) == r1 = "200" /\ r2 = "200"

\* step 6, the loop over the session cookies named auth-token, from cookie i
RECURSIVE ScanCookies(_, _, _)
ScanCookies(jar, i, tok) ==
    IF i > Len(jar) THEN [res |-> "false", tok |-> tok]
    ELSE CASE jar[i] \in {"empty", "badjson"} -> ScanCookies(jar, i + 1, tok)
           [] jar[i] = "nonobj" -> [res |-> "raise", tok |-> tok]
           [] jar[i] = "notoken" -> [res |-> "raise", tok |-> NoneTok]
           [] jar[i] = "emptytoken" -> [res |-> "true", tok |-> ""]
           [] OTHER -> [res |-> "true", tok |-> LoginTok]

\* step 6 on a 200 response whose body is not JSON
Step6NotJson(body, tok) ==
    CASE body = "inner" -> [res |-> "true", tok |-> tok]
      [] body = "outer" -> [res |-> "false", tok |-> tok]
      [] OTHER -> [res |-> "raise", tok |-> tok]

step6_authenticate_event_management(resp, body, jar, tok) ==
    IF resp # "200" THEN [res |-> "false", tok |-> tok]
    ELSE IF body = "json" THEN ScanCookies(jar, 1, tok)
    ELSE Step6NotJson(body, tok)

\* (variant: a failed step 2 falls through to the prompt)
FatalWithoutStep2(n) == n \in {1, 3, 6}

\* (variant: a failed step 4 ends the flow)
FatalWithStep4(n) == n \in {1, 2, 3, 4, 6}

\* authenticate(): which login steps end the flow when they fail
Fatal(n) == n \in {1, 2, 3, 6}

\* (variant: a rejected one-time code leads back to the prompt)
AfterStepReprompt(n, ok) ==
    IF ~ok /\ n = 3 THEN "prompt"
    ELSE IF ~ok /\ Fatal(n) THEN "auth_done"
    ELSE CASE n = 1 -> "s2"
           [] n = 2 -> "prompt"
           [] n = 3 -> "s4"
           [] n = 4 -> "s5"
           [] n = 5 -> "s6"
           [] OTHER -> "auth_done"

\* authenticate(): where the flow goes after step n
AfterStep(n, ok) ==
    IF ~ok /\ Fatal(n) THEN "auth_done"
    ELSE CASE n = 1 -> "s2"
           [] n = 2 -> "prompt"
           [] n = 3 -> "s4"
           [] n = 4 -> "s5"
           [] n = 5 -> "s6"
           [] OTHER -> "auth_done"

B(ok) == IF ok THEN "true" ELSE "false"

\* one of the steps 1..5: the request(s), then authenticate()'s branch on it
LoginStep(n, here, ok) ==
    /\ UNCHANGED unit
    /\ pc = here
    /\ stepres' = [stepres EXCEPT ![n] = B(ok)]
    /\ log' = Append(log, Entry(StepName(n), "-", auth_token, B(ok)))
    /\ pc' = AfterStep(n, ok)
    /\ authres' = IF AfterStep(n, ok) = "auth_done" THEN "false" ELSE authres
    /\ UNCHANGED <<auth_token, op, args, tok0, s6in, idx, results,
                   event_data_list, html_reports, summary, ret>>

step1_submit_password ==
    \E resp \in Responses : LoginStep(1, "s1", RaiseForStatusOK(resp))

step2_request_mfa_code ==
    \E resp \in Responses : LoginStep(2, "s2", RaiseForStatusOK(resp))

\* mfa_code = input(...): the operator is asked for the one-time code
PromptOperator ==
    /\ UNCHANGED unit
    /\ pc = "prompt"
    /\ log' = Append(log, Entry("prompt", "-", auth_token, 0))
    /\ pc' = "s3"
    /\ UNCHANGED <<auth_token, op, args, tok0, stepres, s6in, authres, idx,
                   results, event_data_list, html_reports, summary, ret>>

step3_validate_mfa_code ==
    \E resp \in Responses : LoginStep(3, "s3", RaiseForStatusOK(resp))

step4_register_page_access ==
    \E resp \in Responses : LoginStep(4, "s4", Step4OK(resp))

step5_navigate_to_event_management ==
    \E r1, r2 \in Responses : LoginStep(5, "s5", Step5OK(r1, r2))

Step6 ==
    /\ UNCHANGED unit
    /\ pc = "s6"
    /\ \E resp \in Responses, body \in Bodies, jar \in Jars :
         LET r == step6_authenticate_event_management(resp, body, jar, auth_token)
         IN /\ s6in' = [resp |-> resp, body |-> body, jar |-> jar]
            /\ stepres' = [stepres EXCEPT ![6] = r.res]
            /\ auth_token' = r.tok
            /\ authres' = r.res
            /\ log' = Append(log, Entry(StepName(6), "-", auth_token, r.res))
            /\ pc' = AfterStep(6, r.res = "true")
    /\ UNCHANGED <<op, args, tok0, idx, results, event_data_list, html_reports,
                   summary, ret>>

\* ---------------------------------------------------------------- fetcher

\* How the event-detail request ends:
\*   ok       a 2xx response whose JSON body is a non-empty object
\*   nondict  a 2xx response whose JSON body is truthy but no object
\*   fail     a 4xx/5xx status, a transport error, a body response.json()
\*            rejects with a RequestException, or a falsy JSON body
\*   raise    a body response.json() rejects with an error that is no
\*            RequestException (requests < 2.27)
FetchOutcomes == {"ok", "nondict", "fail", "raise"}

\* (variant: the guard written as `if self.auth_token is None`)
NotAuthenticatedIsNone(tok) == tok = NoneTok

\* get_edr_report / browse_events: `if not self.auth_token: raise ValueError`
NotAuthenticated(tok) == ~Truthy(tok)

\* get_edr_report(event_id): whether a request is sent, and what comes back
get_edr_report(tok, e, fo) ==
    IF NotAuthenticated(tok) THEN [res |-> "ValueError", log |-> <<>>]
    ELSE [res |-> CASE fo = "ok" -> "data"
                    [] fo = "nondict" -> "nondict"
                    [] fo = "fail" -> "empty"
                    [] OTHER -> "raise",
          log |-> <<Entry("fetch", e, tok, fo)>>]

\* browse_events(): the same guard, one POST, {} on a RequestException
browse_events(tok, fo) ==
    IF NotAuthenticated(tok) THEN [res |-> "ValueError", log |-> <<>>]
    ELSE [res |-> CASE fo \in {"ok", "nondict"} -> "data"
                    [] fo = "fail" -> "empty"
                    [] OTHER -> "raise",
          log |-> <<Entry("browse", "-", tok, fo)>>]

\* generate_html_report(edr_data): edr_data.get raises on a non-object
generate_html_report(data) == IF data = "data" THEN "html" ELSE "raise"

SaveOutcomes == {"ok", "oserror"}

\* (variant: the report is printed before the permanent copy is written)
RenderPrintSave(tok, e, data, save_copy, so, po) ==
    IF generate_html_report(data) = "raise"
    THEN [ret |-> "raise", log |-> <<Entry("render", e, tok, "raise")>>]
    ELSE IF save_copy /\ so = "oserror"
    THEN [ret |-> "raise",
          log |-> <<Entry("render", e, tok, "ok"), Entry("print", e, tok, B(po)),
                    Entry("save", e, tok, so)>>]
    ELSE [ret |-> B(po),
          log |-> <<Entry("render", e, tok, "ok"), Entry("print", e, tok, B(po))>>
                  \o (IF save_copy THEN <<Entry("save", e, tok, "ok")>> ELSE <<>>)]

\* generate_and_print_edr_report after the fetch: render, save the permanent
\* copy if asked (an OSError of open() is not caught), print
RenderSavePrint(tok, e, data, save_copy, so, po) ==
    IF generate_html_report(data) = "raise"
    THEN [ret |-> "raise", log |-> <<Entry("render", e, tok, "raise")>>]
    ELSE IF save_copy /\ so = "oserror"
    THEN [ret |-> "raise",
          log |-> <<Entry("render", e, tok, "ok"), Entry("save", e, tok, so)>>]
    ELSE [ret |-> B(po),
          log |-> <<Entry("render", e, tok, "ok")>>
                  \o (IF save_copy THEN <<Entry("save", e, tok, "ok")>> ELSE <<>>)
                  \o <<Entry("print", e, tok, B(po))>>]

\* generate_and_print_edr_report: `if not self.auth_token: return False`
GenerateGuard(tok) == ~Truthy(tok)

generate_and_print_edr_report(tok, e, save_copy, fo, so, po) ==
    IF GenerateGuard(tok) THEN [ret |-> "false", log |-> <<>>]
    ELSE LET f == get_edr_report(tok, e, fo)
         IN CASE f.res \in {"raise", "ValueError"} -> [ret |-> "raise", log |-> f.log]
              [] f.res = "empty" -> [ret |-> "false", log |-> f.log]
              [] OTHER ->
                   LET r == RenderSavePrint(tok, e, f.res, save_copy, so, po)
                   IN [ret |-> r.ret, log |-> f.log \o r.log]

\* ------------------------------------------------------ process_event_list

Rec(success, generated, printed, saved, error) ==
    [success |-> success, generated |-> generated, printed |-> printed,
     saved |-> saved, error |-> error]

\* the record of the `except Exception as e` branch
ExceptRec == Rec(FALSE, FALSE, FALSE, FALSE, "exception")

\* 'saved' of the print_reports branch: save_copies if success else False
SavedFlag(success, save_copies) == IF success THEN save_copies ELSE FALSE

\* one iteration of process_event_list's loop, print_reports = True
ProcessPrinting(tok, e, save_copies, fo, so, po) ==
    LET g == generate_and_print_edr_report(tok, e, save_copies, fo, so, po)
        ok == g.ret = "true"
    IN [rec |-> IF g.ret = "raise" THEN ExceptRec
                ELSE Rec(ok, ok, ok, SavedFlag(ok, save_copies), "None"),
        log |-> g.log]

\* one iteration of process_event_list's loop, print_reports = False
ProcessSaving(tok, e, save_copies, fo, so) ==
    LET f == get_edr_report(tok, e, fo)
    IN CASE f.res \in {"raise", "ValueError"} -> [rec |-> ExceptRec, log |-> f.log]
         [] f.res = "empty" ->
              [rec |-> Rec(FALSE, FALSE, FALSE, FALSE, "Failed to retrieve EDR data"),
               log |-> f.log]
         [] generate_html_report(f.res) = "raise" ->
              [rec |-> ExceptRec,
               log |-> f.log \o <<Entry("render", e, tok, "raise")>>]
         [] save_copies /\ so = "oserror" ->
              [rec |-> ExceptRec,
               log |-> f.log \o <<Entry("render", e, tok, "ok"),
                                  Entry("save", e, tok, so)>>]
         [] OTHER ->
              [rec |-> Rec(TRUE, TRUE, FALSE, save_copies, "None"),
               log |-> f.log \o <<Entry("render", e, tok, "ok")>>
                       \o (IF save_copies THEN <<Entry("save", e, tok, "ok")>>
                           ELSE <<>>)]

ProcessOne(tok, e, save_copies, print_reports, fo, so, po) ==
    IF print_reports THEN ProcessPrinting(tok, e, save_copies, fo, so, po)
    ELSE ProcessSaving(tok, e, save_copies, fo, so)

\* process_event_list: `if not self.generator.auth_token: return {}`
ListGuard(tok) == ~Truthy(tok)

\* (variant: the loop stops at the first identifier that fails)
AfterEventAbort(i, ids, rec) ==
    IF ~rec.success \/ i + 1 > Len(ids) THEN "pel_done" ELSE "loop"

\* the for loop: where control goes after the iteration at position i
AfterEvent(i, ids, rec) == IF i + 1 > Len(ids) THEN "pel_done" ELSE "loop"

ProcessEventListGuard ==
    /\ UNCHANGED unit
    /\ pc = "pel"
    /\ pc' = IF ListGuard(auth_token) \/ Len(args.ids) = 0 THEN "pel_done" ELSE "loop"
    /\ UNCHANGED <<auth_token, op, args, tok0, stepres, s6in, authres, idx, results,
                   event_data_list, html_reports, summary, ret, log>>

ProcessEvent ==
    /\ UNCHANGED unit
    /\ pc = "loop"
    /\ idx <= Len(args.ids)
    /\ \E fo \in FetchOutcomes, so \in SaveOutcomes, po \in BOOLEAN :
         LET e == args.ids[idx]
             r == ProcessOne(auth_token, e, args.save, args.print, fo, so, po)
         IN /\ results' = Put(results, e, r.rec)
            /\ log' = log \o r.log
            /\ pc' = AfterEvent(idx, args.ids, r.rec)
    /\ idx' = idx + 1
    /\ UNCHANGED <<auth_token, op, args, tok0, stepres, s6in, authres,
                   event_data_list, html_reports, summary, ret>>

\* print_summary(results): the three counts it prints
print_summary(res) ==
    LET total == Cardinality(DOMAIN res)
        successful == Cardinality({e \in DOMAIN res : res[e].success})
    IN [total |-> total, successful |-> successful, failed |-> total - successful]

\* all(r['success'] for r in results.values())
AllSuccessful(res) == \A e \in DOMAIN res : res[e].success

\* process_event_list called on its own returns the results dict
ProcessEventListReturn ==
    /\ UNCHANGED unit
    /\ pc = "pel_done"
    /\ op = "process_event_list"
    /\ ret' = "results"
    /\ pc' = "done"
    /\ UNCHANGED <<auth_token, op, args, tok0, stepres, s6in, authres, idx, results,
                   event_data_list, html_reports, summary, log>>

\* ... and its caller hands the dict to print_summary
PrintSummary ==
    /\ UNCHANGED unit
    /\ pc = "done"
    /\ op = "process_event_list"
    /\ summary = NoSummary
    /\ summary' = print_summary(results)
    /\ UNCHANGED <<auth_token, pc, op, args, tok0, stepres, s6in, authres, idx,
                   results, event_data_list, html_reports, ret, log>>

\* run_automated_batch after process_event_list: the summary, then all(...)
RunAutomatedBatchFinish ==
    /\ UNCHANGED unit
    /\ pc = "pel_done"
    /\ op = "run_automated_batch"
    /\ summary' = print_summary(results)
    /\ ret' = B(AllSuccessful(results))
    /\ pc' = "done"
    /\ UNCHANGED <<auth_token, op, args, tok0, stepres, s6in, authres, idx, results,
                   event_data_list, html_reports, log>>

\* ------------------------------------------------------ run_enhanced_batch

\* one iteration of run_enhanced_batch's loop: what it appends to
\* event_data_list and html_reports, and what it does outside
EnhancedOne(tok, e, fo, so) ==
    LET f == get_edr_report(tok, e, fo)
        none == [data |-> <<>>, html |-> <<>>, log |-> f.log]
    IN CASE f.res \in {"raise", "ValueError", "empty"} -> none
         [] generate_html_report(f.res) = "raise" ->
              [data |-> <<[id |-> e, kind |-> f.res]>>, html |-> <<>>,
               log |-> f.log \o <<Entry("render", e, tok, "raise")>>]
         [] OTHER ->
              [data |-> <<[id |-> e, kind |-> f.res]>>, html |-> <<e>>,
               log |-> f.log \o <<Entry("render", e, tok, "ok"),
                                  Entry("save", e, tok, so)>>]

AfterEnhancedEvent(i, ids) == IF i + 1 > Len(ids) THEN "efinish" ELSE "eloop"

EnhancedEvent ==
    /\ UNCHANGED unit
    /\ pc = "eloop"
    /\ idx <= Len(args.ids)
    /\ \E fo \in FetchOutcomes, so \in SaveOutcomes :
         LET r == EnhancedOne(auth_token, args.ids[idx], fo, so)
         IN /\ event_data_list' = event_data_list \o r.data
            /\ html_reports' = html_reports \o r.html
            /\ log' = log \o r.log
    /\ pc' = AfterEnhancedEvent(idx, args.ids)
    /\ idx' = idx + 1
    /\ UNCHANGED <<auth_token, op, args, tok0, stepres, s6in, authres, results,
                   summary, ret>>

\* which PDF library the build has: REPORTLAB_AVAILABLE, WEASYPRINT_AVAILABLE
PdfLibs == {"reportlab", "weasyprint", "none"}

\* the consolidated PDF: reportlab reads the records (and raises on one that
\* is no object), weasyprint reads the rendered reports; either may fail
PdfCreated(lib, edl, pdfok) ==
    /\ lib # "none"
    /\ pdfok
    /\ lib = "reportlab" => \A i \in 1..Len(edl) : edl[i].kind = "data"

\* run_enhanced_batch after the loop, with create_pdf, auto_print and open_pdf
\* as main() passes them
EnhancedFinish ==
    /\ UNCHANGED unit
    /\ pc = "efinish"
    /\ \E lib \in PdfLibs, pdfok \in BOOLEAN, po \in BOOLEAN :
         IF Len(event_data_list) = 0
         THEN ret' = "false" /\ log' = log
         ELSE IF ~PdfCreated(lib, event_data_list, pdfok)
         THEN ret' = "false" /\ log' = Append(log, Entry("pdf", "-", auth_token, "fail"))
         ELSE /\ ret' = B(Len(event_data_list) > 0)
              /\ log' = log \o <<Entry("pdf", "-", auth_token, "ok"),
                                 Entry("printpdf", "-", auth_token, B(po))>>
    /\ pc' = "done"
    /\ UNCHANGED <<auth_token, op, args, tok0, stepres, s6in, authres, idx, results,
                   event_data_list, html_reports, summary>>

\* ------------------------------------------------------- top-level calls

Batches == {"run_automated_batch", "run_enhanced_batch"}

\* (variant: `if authenticate:`)
NeedsLoginAlways(authenticate, tok) == authenticate

\* `if authenticate and not self.generator.auth_token`
NeedsLogin(authenticate, tok) == authenticate /\ ~Truthy(tok)

\* where a batch goes to process its events
BodyPc(o) == IF o = "run_enhanced_batch" THEN "eloop" ELSE "pel"
BodyStart(o, ids) ==
    IF o = "run_enhanced_batch" /\ Len(ids) = 0 THEN "efinish" ELSE BodyPc(o)

\* (variant: the result of authenticate_once() is ignored)
ProceedAlways(r) == TRUE

\* `if not self.authenticate_once(): return False`
ProceedAfterLogin(r) == r = "true"

set_authentication_manually ==
    /\ UNCHANGED unit
    /\ pc = "idle"
    /\ \E t \in {ManualTok, ""} : auth_token' = t
    /\ UNCHANGED <<pc, op, args, tok0, stepres, s6in, authres, idx, results,
                   event_data_list, html_reports, summary, ret, log>>

CallAuthenticate ==
    /\ Begin("authenticate", NoArgs, "s1")
    /\ ret' = "none"
    /\ log' = <<>>
    /\ UNCHANGED auth_token

CallGetEdrReport ==
    \E e \in EventIds, fo \in FetchOutcomes :
        LET f == get_edr_report(auth_token, e, fo)
        IN /\ Begin("get_edr_report", [NoArgs EXCEPT !.ids = <<e>>], "done")
           /\ ret' = f.res
           /\ log' = f.log
           /\ UNCHANGED auth_token

CallBrowseEvents ==
    \E fo \in FetchOutcomes :
        LET f == browse_events(auth_token, fo)
        IN /\ Begin("browse_events", NoArgs, "done")
           /\ ret' = f.res
           /\ log' = f.log
           /\ UNCHANGED auth_token

CallGenerateAndPrint ==
    \E e \in EventIds, save_copy \in BOOLEAN, fo \in FetchOutcomes,
       so \in SaveOutcomes, po \in BOOLEAN :
        LET g == generate_and_print_edr_report(auth_token, e, save_copy, fo, so, po)
        IN /\ Begin("generate_and_print_edr_report",
                    [NoArgs EXCEPT !.ids = <<e>>, !.save = save_copy, !.print = TRUE],
                    "done")
           /\ ret' = g.ret
           /\ log' = g.log
           /\ UNCHANGED auth_token

CallProcessEventList ==
    \E ids \in EventLists, save_copies \in BOOLEAN, print_reports \in BOOLEAN :
        /\ Begin("process_event_list",
                 [ids |-> ids, authenticate |-> FALSE, save |-> save_copies,
                  print |-> print_reports], "pel")
        /\ ret' = "none"
        /\ log' = <<>>
        /\ UNCHANGED auth_token

CallBatch(o) ==
    \E ids \in EventLists, authenticate \in BOOLEAN :
        /\ Begin(o, [ids |-> ids, authenticate |-> authenticate, save |-> TRUE,
                     print |-> TRUE],
                 IF NeedsLogin(authenticate, auth_token) THEN "s1"
                 ELSE BodyStart(o, ids))
        /\ ret' = "none"
        /\ log' = <<>>
        /\ UNCHANGED auth_token

run_automated_batch == CallBatch("run_automated_batch")

run_enhanced_batch == CallBatch("run_enhanced_batch")

\* authenticate() is over: back in its caller
AuthReturn ==
    /\ UNCHANGED unit
    /\ pc = "auth_done"
    /\ IF op \in Batches /\ ProceedAfterLogin(authres)
       THEN pc' = BodyStart(op, args.ids) /\ ret' = ret
       ELSE pc' = "done" /\ ret' = authres
    /\ UNCHANGED <<auth_token, op, args, tok0, stepres, s6in, authres, idx, results,
                   event_data_list, html_reports, summary, log>>

\* (variant: the generator drops its auth_token when a call is over)
ReturnForgetsToken ==
    /\ UNCHANGED unit
    /\ pc = "done"
    /\ pc' = "idle"
    /\ op' = "none"
    /\ args' = NoArgs
    /\ tok0' = NoneTok
    /\ stepres' = NoSteps
    /\ s6in' = NoS6
    /\ authres' = "none"
    /\ idx' = 0
    /\ results' = <<>>
    /\ event_data_list' = <<>>
    /\ html_reports' = <<>>
    /\ summary' = NoSummary
    /\ ret' = "none"
    /\ log' = <<>>
    /\ auth_token' = NoneTok

\* the top-level call is over; the generator keeps its auth_token
Return ==
    /\ UNCHANGED unit
    /\ pc = "done"
    /\ pc' = "idle"
    /\ op' = "none"
    /\ args' = NoArgs
    /\ tok0' = NoneTok
    /\ stepres' = NoSteps
    /\ s6in' = NoS6
    /\ authres' = "none"
    /\ idx' = 0
    /\ results' = <<>>
    /\ event_data_list' = <<>>
    /\ html_reports' = <<>>
    /\ summary' = NoSummary
    /\ ret' = "none"
    /\ log' = <<>>
    /\ UNCHANGED auth_token

Next ==
    \/ set_authentication_manually
    \/ CallAuthenticate
    \/ CallGetEdrReport
    \/ CallBrowseEvents
    \/ CallGenerateAndPrint
    \/ CallProcessEventList
    \/ run_automated_batch
    \/ run_enhanced_batch
    \/ step1_submit_password
    \/ step2_request_mfa_code
    \/ PromptOperator
    \/ step3_validate_mfa_code
    \/ step4_register_page_access
    \/ step5_navigate_to_event_management
    \/ Step6
    \/ AuthReturn
    \/ ProcessEventListGuard
    \/ ProcessEvent
    \/ ProcessEventListReturn
    \/ PrintSummary
    \/ RunAutomatedBatchFinish
    \/ EnhancedEvent
    \/ EnhancedFinish
    \/ Return

Spec == Init /\ [][Next]_vars

\* ------------------------------------------------------------ print dispatch
\* platform.system().lower(): the three the code knows, and any other
Systems == {"windows", "darwin", "linux", "other"}

\* what one mechanism's subprocess.run does: return code 0, a non-zero return
\* code, subprocess.TimeoutExpired, or another exception (command not found)
MechOutcomes == {"ok", "fail", "timeout", "exc"}

\* outcomes of open() / os.remove()
FileOutcomes == {"ok", "oserror"}

\* print_html_report's mechanisms per platform, in the order of the code
HtmlMechs(system) ==
    CASE system = "windows" -> <<"_print_on_windows_simple",
                                 "_print_on_windows_advanced",
                                 "_print_on_windows_fallback">>
      [] system = "darwin" -> <<"lp", "safari">>
      [] system = "linux" -> <<"lp", "lpr", "xdg-open">>
      [] OTHER -> <<>>

\* print_pdf_file's mechanisms per platform
PdfMechs(system) ==
    CASE system = "windows" -> <<"start", "powershell">>
      [] system = "darwin" -> <<"lp">>
      [] system = "linux" -> <<"lp">>
      [] OTHER -> <<>>

\* the Windows mechanisms of print_html_report are methods with a try/except
\* each; everywhere else one try/except encloses all the mechanisms
Isolated(system) == system = "windows"

Attempt(m, out) == [k |-> "attempt", m |-> m, out |-> out]
WriteTemp(out) == [k |-> "write", m |-> "-", out |-> out]
Sleep == [k |-> "sleep", m |-> "-", out |-> "ok"]
RemoveTemp(out) == [k |-> "remove", m |-> "-", out |-> out]

\* (variant: a return code of 0 is not taken as success)
SucceededNever(out) == FALSE

\* `result.returncode == 0`
Succeeded(out) == out = "ok"

\* a timeout or exception that the enclosing try/except turns into
\* `return False`
Aborts(out, isolated) == out \in {"timeout", "exc"} /\ ~isolated

\* the mechanisms from position i on, tried one after the other
RECURSIVE RunChain(_, _, _, _)
RunChain(mechs, outs, i, isolated) ==
    IF i > Len(mechs) THEN [ok |-> FALSE, trace |-> <<>>]
    ELSE LET a == Attempt(mechs[i], outs[i])
         IN CASE Succeeded(outs[i]) -> [ok |-> TRUE, trace |-> <<a>>]
              [] Aborts(outs[i], isolated) -> [ok |-> FALSE, trace |-> <<a>>]
              [] OTHER ->
                   LET r == RunChain(mechs, outs, i + 1, isolated)
                   IN [ok |-> r.ok, trace |-> <<a>> \o r.trace]

\* (variant: the temporary file is removed before the delay, and the call
\* reports whether the removal worked)
CleanupBeforeDelay(rm) ==
    [ret |-> B(rm = "ok"), trace |-> <<RemoveTemp(rm), Sleep>>]

\* `if result:` time.sleep(5), os.remove, OSError only reported; return True
CleanupAfterSuccess(rm) == [ret |-> "true", trace |-> <<Sleep, RemoveTemp(rm)>>]

\* `else:` os.remove, OSError passed over; return False
CleanupAfterFailure(rm) == [ret |-> "false", trace |-> <<RemoveTemp(rm)>>]

\* print_html_report: wo is the outcome of writing the temporary file, outs
\* the mechanisms' outcomes, rm the outcome of os.remove
print_html_report(system, wo, outs, rm) ==
    IF wo # "ok" THEN [ret |-> "false", trace |-> <<WriteTemp(wo)>>]
    ELSE IF system \notin {"windows", "darwin", "linux"}
    THEN [ret |-> "false", trace |-> <<WriteTemp(wo)>>]
    ELSE LET r == RunChain(HtmlMechs(system), outs, 1, Isolated(system))
             c == IF r.ok THEN CleanupAfterSuccess(rm) ELSE CleanupAfterFailure(rm)
         IN [ret |-> c.ret, trace |-> <<WriteTemp(wo)>> \o r.trace \o c.trace]

\* print_pdf_file: the mechanisms of the platform inside one try/except
print_pdf_file(system, outs) ==
    LET r == RunChain(PdfMechs(system), outs, 1, FALSE)
    IN [ret |-> B(r.ok), trace |-> r.trace]

\* ------------------------------------------------- code descriptions
\* self.event_type_codes
event_type_codes ==
    ("1" :> "Sampling") @@ ("2" :> "Demo/Sampling") @@ ("3" :> "Cooking Demo") @@
    ("4" :> "Product Demo") @@ ("5" :> "Educational") @@ ("6" :> "Seasonal") @@
    ("7" :> "Holiday") @@ ("8" :> "Back to School") @@
    ("9" :> "Health & Wellness") @@ ("10" :> "New Product Launch") @@
    ("45" :> "Food Demo/Sampling") @@ ("46" :> "Beverage Demo") @@
    ("47" :> "Product Demonstration") @@ ("48" :> "Special Event") @@
    ("49" :> "Promotional Event") @@ ("50" :> "Tasting Event") @@
    ("DEMO" :> "Demonstration") @@ ("SAMP" :> "Sampling") @@
    ("COOK" :> "Cooking Demo") @@ ("SPEC" :> "Special Event") @@
    ("PROM" :> "Promotion") @@ ("DISP" :> "Display") @@ ("TAST" :> "Tasting") @@
    ("EDUC" :> "Educational") @@ ("SEAS" :> "Seasonal") @@
    ("NEW" :> "New Product") @@ ("HOLI" :> "Holiday") @@
    ("BACK" :> "Back to School") @@ ("GRIL" :> "Grilling") @@
    ("HEAL" :> "Health & Wellness")

\* self.event_status_codes
event_status_codes ==
    ("1" :> "Pending") @@ ("2" :> "Active/Scheduled") @@ ("3" :> "In Progress") @@
    ("4" :> "Completed") @@ ("5" :> "Cancelled") @@ ("6" :> "On Hold") @@
    ("7" :> "Under Review") @@ ("8" :> "Approved") @@ ("9" :> "Rejected") @@
    ("10" :> "Suspended") @@
    ("ACTV" :> "Active") @@ ("COMP" :> "Completed") @@ ("CANC" :> "Cancelled") @@
    ("PEND" :> "Pending") @@ ("HOLD" :> "On Hold") @@
    ("PREP" :> "In Preparation") @@ ("SCHED" :> "Scheduled") @@
    ("INPR" :> "In Progress") @@ ("SUSP" :> "Suspended") @@ ("CLOS" :> "Closed") @@
    ("APPR" :> "Approved") @@ ("REJE" :> "Rejected") @@ ("SUBM" :> "Submitted") @@
    ("REVI" :> "Under Review")

\* codes a caller may pass: keys of the tables, the same letters in another
\* case, codes of neither table, the sentinel and the empty string
Codes == {"1", "2", "10", "45", "50", "999", "77", "DEMO", "demo", "Demo",
          "ACTV", "actv", "Sched", "HEAL", "REVI", "XYZ", "xyz", "N/A", "n/a", ""}

\* str.upper() on the codes above
Upper(s) ==
    CASE s \in {"demo", "Demo"} -> "DEMO"
      [] s = "actv" -> "ACTV"
      [] s = "Sched" -> "SCHED"
      [] s = "xyz" -> "XYZ"
      [] s = "n/a" -> "N/A"
      [] OTHER -> s

\* dict.get(code_str, None), the code looked up as given (variant: no upper())
LookupExact(table, prefix, code) ==
    IF code = "" \/ code = "N/A" THEN "N/A"
    ELSE IF code \in DOMAIN table THEN table[code]
    ELSE prefix \o code

\* the body the two describe functions share: 'N/A' for a falsy code or
\* 'N/A', the label of str(code).upper() if the table has it, else the
\* prefix followed by the code as given
Lookup(table, prefix, code) ==
    IF code = "" \/ code = "N/A" THEN "N/A"
    ELSE IF Upper(code) \in DOMAIN table THEN table[Upper(code)]
    ELSE prefix \o code

get_event_type_description(code) == Lookup(event_type_codes, "Event Type ", code)

get_event_status_description(code) == Lookup(event_status_codes, "Status ", code)

\* ------------------------------------------------------------- rendering
\* the keys of an EDR payload that the renderers read; the two instruction
\* texts are keys of the object under demoInstructions
TopFields == {"demoId", "demoClassCode", "demoStatusCode", "demoDate", "demoName",
              "demoLockInd", "demoInstructions", "itemDetails"}
InstructionFields == {"demoPrepnTxt", "demoPortnTxt"}
Fields == TopFields \cup InstructionFields

ItemNbrs == {"12345", "67890"}
\* an item of itemDetails: its item number, or NoNbr for an item object
\* without the key itemNbr
NoNbr == "<no itemNbr>"
Items == ItemNbrs \cup {NoNbr}
EventNumbers == {"606034"}
TypeCodesIn == {"45", "999"}
StatusCodesIn == {"2"}

\* a payload: the keys it lacks, its event number, its type and status
\* codes, and the items of its itemDetails
Payloads ==
    [absent : SUBSET Fields, id : EventNumbers, type : TypeCodesIn,
     status : StatusCodesIn, items : SeqsUpTo(Items, MaxItems)]

\* the value under a key the payload has
Value(p, f) ==
    CASE f = "demoClassCode" -> p.type
      [] f = "demoStatusCode" -> p.status
      [] f = "demoId" -> p.id
      [] f = "demoDate" -> "2025-01-15"
      [] f = "demoName" -> "Sample Event"
      [] f = "demoLockInd" -> "Y"
      [] f = "demoPrepnTxt" -> "prep text"
      [] OTHER -> "portion text"

\* `if edr_data`: an object with no key is falsy
DictIsEmpty(p) == TopFields \subseteq p.absent

\* (variant: an absent key reads as the empty string)
GetOrBlank(p, f) == IF DictIsEmpty(p) \/ f \in p.absent THEN "" ELSE Value(p, f)

\* `edr_data.get(f, 'N/A') if edr_data else 'N/A'`
Get(p, f) == IF DictIsEmpty(p) \/ f \in p.absent THEN "N/A" ELSE Value(p, f)

\* `if instructions`: demoInstructions is there and is not an empty object
InstructionsTruthy(p) ==
    /\ ~DictIsEmpty(p)
    /\ "demoInstructions" \notin p.absent
    /\ ~(InstructionFields \subseteq p.absent)

\* `instructions.get(f, 'N/A') if instructions else 'N/A'`
GetInstruction(p, f) ==
    IF InstructionsTruthy(p) /\ f \notin p.absent THEN Value(p, f) ELSE "N/A"

\* `edr_data.get('itemDetails', []) if edr_data else []`
ItemDetails(p) ==
    IF DictIsEmpty(p) \/ "itemDetails" \in p.absent THEN <<>> ELSE p.items

\* (variant: the rows are appended at the front)
ItemRowsReversed(items) ==
    [i \in 1..Len(items) |->
        [itemNbr |-> IF items[Len(items) + 1 - i] = NoNbr THEN ""
                     ELSE items[Len(items) + 1 - i]]]

\* `for item in item_details:` one row per item, showing
\* item.get('itemNbr', '')
ItemRows(items) ==
    [i \in 1..Len(items) |->
        [itemNbr |-> IF items[i] = NoNbr THEN "" ELSE items[i]]]

\* what generate_html_report puts into its template: the text shown for each
\* key, and the item number of each row of the items table
HtmlReport(p) ==
    [res |-> "ok",
     shown |-> [f \in Fields \ {"demoInstructions", "itemDetails"} |->
                  IF f \in InstructionFields THEN GetInstruction(p, f)
                  ELSE Get(p, f)],
     item_rows |-> ItemRows(ItemDetails(p))]

\* what generate_consolidated_pdf_reportlab puts into the section of one
\* event: the two header tables, with the codes described, and the items table
PdfSection(p) ==
    [res |-> "ok",
     shown |-> [f \in TopFields \ {"demoInstructions", "itemDetails"} |->
                  CASE f = "demoClassCode" ->
                         get_event_type_description(Get(p, f))
                    [] f = "demoStatusCode" ->
                         get_event_status_description(Get(p, f))
                    [] OTHER -> Get(p, f)],
     item_rows |-> ItemRows(ItemDetails(p))]

\* datetime.datetime.now(): a day, a time of day to the second, microseconds
Clocks ==
    [date : {"2025-01-15"}, time : {"10:00:00", "10:00:01"},
     micro : {"000000", "500000"}]

\* the generator object a render is called on: its credential and the number
\* of reports it has rendered before
Generators == [auth_token : {NoneTok, LoginTok}, renders : {"0", "1"}]

\* records rendered twice
ReplayPayloads ==
    {p \in Payloads : p.absent \subseteq {"demoName", "demoInstructions"}
                      /\ Len(p.items) <= 1}

\* (variant: the report embeds the credential of the generator)
HtmlDocumentOfSession(p, now, self) ==
    [report |-> HtmlReport(p), report_date |-> now.date,
     report_time |-> now.time, session |-> self.auth_token]

\* generate_html_report: now.strftime("%Y-%m-%d") and now.strftime("%H:%M:%S")
\* in the "RUN ON ... AT ..." line, and the fields of the record; nothing of
\* self is read
HtmlDocument(p, now, self) ==
    [report |-> HtmlReport(p), report_date |-> now.date,
     report_time |-> now.time, session |-> "-"]

\* ------------------------------------------------------- consolidated PDF
\* records of a consolidated document: two event numbers, with or without
\* a name
PdfEvents ==
    {[absent |-> a, id |-> n, type |-> "45", status |-> "2", items |-> <<"12345">>] :
        a \in {{}, {"demoName"}}, n \in {"606034", "606035"}}

\* the filename argument: none, or a name
Filenames == {"", "out.pdf"}
BuildOutcomes == {"ok", "raise"}

\* elements of the story handed to doc.build
PageBreak == [k |-> "PageBreak", rows |-> <<>>, body |-> <<>>]
CoverPage(rows) == [k |-> "cover", rows |-> rows, body |-> <<>>]
Section(body) == [k |-> "section", rows |-> <<>>, body |-> body]

\* a row of the cover page's summary table; the names of these records are
\* shorter than the 30 characters after which a name is cut
CoverRow(p) ==
    [event_number |-> Get(p, "demoId"),
     event_name |-> Get(p, "demoName"),
     event_type |-> get_event_type_description(Get(p, "demoClassCode")),
     event_status |-> get_event_status_description(Get(p, "demoStatusCode"))]

\* (variant: no section is preceded by a page break of its own)
BreakBeforeNever(i) == FALSE

\* `if i > 0: story.append(PageBreak())`, i counted from 1 here
BreakBefore(i) == i > 1

\* the sections of the events from position i on
RECURSIVE Sections(_, _)
Sections(events, i) ==
    IF i > Len(events) THEN <<>>
    ELSE (IF BreakBefore(i) THEN <<PageBreak>> ELSE <<>>)
         \o <<Section(PdfSection(events[i]))>> \o Sections(events, i + 1)

\* the story: cover page with the summary table, a page break, the sections
Story(events) ==
    <<CoverPage([i \in 1..Len(events) |-> CoverRow(events[i])]), PageBreak>>
    \o Sections(events, 1)

\* `if not filename:` a name made from the clock
PdfFilename(filename) ==
    IF filename = "" THEN "consolidated_edr_reports_<timestamp>.pdf" ELSE filename

\* generate_consolidated_pdf_reportlab: ImportError without reportlab; else
\* the story is built by one doc.build, whose exception is not caught
generate_consolidated_pdf_reportlab(lib, events, filename, bo) ==
    IF lib # "reportlab"
    THEN [ret |-> "ImportError", story |-> <<>>, builds |-> <<>>]
    ELSE [ret |-> IF bo = "ok" THEN PdfFilename(filename) ELSE "raise",
          story |-> Story(events),
          builds |-> <<PdfFilename(filename)>>]

\* ------------------------------------------------------- unit-level calls
\* the variables of the batch program, which a unit-level call leaves alone
prog == <<auth_token, pc, op, args, tok0, stepres, s6in, authres, idx, results,
          event_data_list, html_reports, summary, ret, log>>

CallPrintHtmlReport ==
    /\ fn = "none"
    /\ \E system \in Systems, wo \in FileOutcomes, rm \in FileOutcomes :
         \E outs \in [1..Len(HtmlMechs(system)) -> MechOutcomes] :
            /\ fn' = "print_html_report"
            /\ inp' = [system |-> system, wo |-> wo, outs |-> outs, rm |-> rm]
            /\ outp' = print_html_report(system, wo, outs, rm)
    /\ UNCHANGED prog

CallPrintPdfFile ==
    /\ fn = "none"
    /\ \E system \in Systems :
         \E outs \in [1..Len(PdfMechs(system)) -> MechOutcomes] :
            /\ fn' = "print_pdf_file"
            /\ inp' = [system |-> system, wo |-> "ok", outs |-> outs, rm |-> "ok"]
            /\ outp' = print_pdf_file(system, outs)
    /\ UNCHANGED prog

CallGetEventTypeDescription ==
    /\ fn = "none"
    /\ \E code \in Codes :
         /\ fn' = "get_event_type_description"
         /\ inp' = [code |-> code]
         /\ outp' = [text |-> get_event_type_description(code)]
    /\ UNCHANGED prog

CallGetEventStatusDescription ==
    /\ fn = "none"
    /\ \E code \in Codes :
         /\ fn' = "get_event_status_description"
         /\ inp' = [code |-> code]
         /\ outp' = [text |-> get_event_status_description(code)]
    /\ UNCHANGED prog

CallGenerateHtmlReport ==
    /\ fn = "none"
    /\ \E p \in Payloads :
         /\ fn' = "generate_html_report"
         /\ inp' = [payload |-> p]
         /\ outp' = HtmlReport(p)
    /\ UNCHANGED prog

CallGeneratePdfSection ==
    /\ fn = "none"
    /\ \E p \in Payloads :
         /\ fn' = "generate_consolidated_pdf_reportlab"
         /\ inp' = [payload |-> p]
         /\ outp' = PdfSection(p)
    /\ UNCHANGED prog

\* generate_html_report called twice on the same record
CallGenerateHtmlReportTwice ==
    /\ fn = "none"
    /\ \E p \in ReplayPayloads, now1 \in Clocks, now2 \in Clocks,
          self1 \in Generators, self2 \in Generators :
         /\ fn' = "generate_html_report twice"
         /\ inp' = [payload |-> p, now1 |-> now1, now2 |-> now2,
                    self1 |-> self1, self2 |-> self2]
         /\ outp' = [first |-> HtmlDocument(p, now1, self1),
                     second |-> HtmlDocument(p, now2, self2)]
    /\ UNCHANGED prog

CallGenerateConsolidatedPdf ==
    /\ fn = "none"
    /\ \E lib \in PdfLibs, events \in SeqsUpTo(PdfEvents, MaxEvents),
          filename \in Filenames, bo \in BuildOutcomes :
         /\ fn' = "generate_consolidated_pdf_reportlab list"
         /\ inp' = [lib |-> lib, events |-> events, filename |-> filename,
                    bo |-> bo]
         /\ outp' = generate_consolidated_pdf_reportlab(lib, events, filename, bo)
    /\ UNCHANGED prog

UnitReturn ==
    /\ fn # "none"
    /\ fn' = "none"
    /\ inp' = <<>>
    /\ outp' = <<>>
    /\ UNCHANGED prog

UnitNext ==
    \/ CallPrintHtmlReport
    \/ CallPrintPdfFile
    \/ CallGetEventTypeDescription
    \/ CallGetEventStatusDescription
    \/ CallGenerateHtmlReport
    \/ CallGeneratePdfSection
    \/ CallGenerateHtmlReportTwice
    \/ CallGenerateConsolidatedPdf
    \/ UnitReturn

UnitSpec == Init /\ [][UnitNext]_vars

\* ================================================================ claims

IsLoginEntry(e) == e.k \in StepKinds \cup {"prompt"}
IsFetchEntry(e) == e.k = "fetch"
IsDownstreamEntry(e) == e.k \in {"fetch", "browse", "render", "save", "print",
                                 "pdf", "printpdf"}
LoginLog == SelectSeq(log, IsLoginEntry)
FetchLog == SelectSeq(log, IsFetchEntry)
FetchIds == [i \in 1..Len(FetchLog) |-> FetchLog[i].id]
LoginOrder == <<"step1", "step2", "prompt", "step3", "step4", "step5", "step6">>
Sent(k) == \E i \in 1..Len(log) : log[i].k = k

\* ---- C1
\* C1: every fetch or browse request is sent under a present (non-empty)
\* auth_token, and a Fetcher operation called without one ends with its
\* not-authenticated outcome (ValueError for get_edr_report and browse_events,
\* False for generate_and_print_edr_report, the empty dict for
\* process_event_list) having sent nothing.
C1_NoFetchWithoutCredential ==
    /\ \A i \in 1..Len(log) :
         log[i].k \in {"fetch", "browse"} => Truthy(log[i].tok)
    /\ (pc = "done" /\ ~Truthy(tok0)) =>
         /\ op \in {"get_edr_report", "browse_events"} =>
              ret = "ValueError" /\ log = <<>>
         /\ op = "generate_and_print_edr_report" => ret = "false" /\ log = <<>>
         /\ op = "process_event_list" =>
              ret = "results" /\ DOMAIN results = {} /\ log = <<>>

C1_Witness ==
    /\ pc = "done"
    /\ op = "get_edr_report"
    /\ tok0 = ""
    /\ ret = "ValueError"

\* ---- C2
\* C2: whenever authenticate() returns True, auth_token is a non-empty token.
C2_TrueImpliesToken == authres = "true" => Truthy(auth_token)

\* ---- C3
\* C3: the login interactions of a call are a prefix of step 1, step 2, prompt,
\* step 3, step 4, step 5, step 6; a failed step 1, 2 or 3 makes authenticate()
\* return False with no later step attempted; the operator is prompted only
\* after steps 1 and 2 succeeded.
C3_StrictOrderFatal123 ==
    /\ Len(LoginLog) <= Len(LoginOrder)
    /\ \A i \in 1..Len(LoginLog) : LoginLog[i].k = LoginOrder[i]
    /\ \A n \in 1..3 :
         stepres[n] = "false" =>
            /\ authres = "false"
            /\ \A m \in (n + 1)..6 : stepres[m] = "none" /\ ~Sent(StepName(m))
            /\ n <= 2 => ~Sent("prompt")
    /\ Sent("prompt") => stepres[1] = "true" /\ stepres[2] = "true"

C3_Witness ==
    /\ pc = "done"
    /\ op = "run_automated_batch"
    /\ stepres[3] = "false"
    /\ Sent("prompt")
    /\ ret = "false"

\* ---- C4
\* C4: when no auth-token cookie of the session yields a token (the cookie is
\* absent, empty, not JSON, or JSON without a token), step 6 does not report
\* success, whatever the status and body of the authenticate response.
NoTokenCookie(jar) ==
    \A i \in 1..Len(jar) : jar[i] \in {"empty", "badjson", "nonobj", "notoken"}

C4_NoCookieNoSuccess ==
    (stepres[6] # "none" /\ NoTokenCookie(s6in.jar)) => stepres[6] # "true"

\* ---- C5
\* C5: once steps 1-3 have succeeded, authenticate() does not return before
\* step 6 has been attempted, whatever steps 4 and 5 did, and its outcome is
\* the outcome of step 6.
C5_BestEffort45 ==
    (authres # "none" /\ \A n \in 1..3 : stepres[n] = "true") =>
        /\ stepres[6] # "none"
        /\ authres = stepres[6]

C5_Witness ==
    /\ stepres[4] = "false"
    /\ stepres[5] = "false"
    /\ stepres[6] = "true"
    /\ authres = "true"

\* ---- C6
\* C6: a batch run whose authenticate() failed (returned False or raised) goes
\* nowhere but to its return, never returns True, returns False when
\* authenticate() returned False, and has attempted no fetch, render, save or
\* print.
C6_AuthFailureAborts ==
    (op \in Batches /\ authres \in {"false", "raise"}) =>
        /\ pc \in {"auth_done", "done"}
        /\ pc = "done" => ret = authres
        /\ \A i \in 1..Len(log) : ~IsDownstreamEntry(log[i])

C6_Witness ==
    /\ op = "run_enhanced_batch"
    /\ Len(args.ids) > 0
    /\ authres = "false"
    /\ stepres[6] = "false"
    /\ pc = "done"
    /\ ret = "false"

\* ---- C7
\* C7: a batch run that starts with the token set_authentication_manually
\* supplied performs no login step, does not prompt, and sends every fetch
\* under that token.
C7_ManualTokenSkipsLogin ==
    (op \in Batches /\ tok0 = ManualTok) =>
        /\ Len(LoginLog) = 0
        /\ authres = "none"
        /\ \A i \in 1..Len(FetchLog) : FetchLog[i].tok = ManualTok

C7_Witness ==
    /\ op = "run_automated_batch"
    /\ args.authenticate
    /\ tok0 = ManualTok
    /\ pc = "done"
    /\ Len(FetchLog) = 2

\* ---- C8
\* C8: with a credential present and nothing but fetches failing, the summary
\* of a list of N identifiers of which M failed fetch counts N identifiers,
\* N-M successes and M failures.
OnlyFetchFailures ==
    \A i \in 1..Len(log) :
        /\ log[i].k = "fetch" => log[i].out \in {"ok", "fail", "raise"}
        /\ log[i].k \in {"render", "save"} => log[i].out = "ok"
        /\ log[i].k = "print" => log[i].out = "true"
FailedFetches ==
    Cardinality({i \in 1..Len(FetchLog) : FetchLog[i].out \in {"fail", "raise"}})

C8_SummaryCounts ==
    (/\ summary # NoSummary
     /\ op \in {"process_event_list", "run_automated_batch"}
     /\ Truthy(tok0)
     /\ OnlyFetchFailures) =>
        /\ summary.total = Len(args.ids)
        /\ summary.failed = FailedFetches
        /\ summary.successful = Len(args.ids) - FailedFetches

\* ---- C9
\* C9: with a credential present, a batch has fetched exactly the identifiers
\* before its loop position, in list order, whatever happened to each, and
\* on return it has fetched the whole list in order.
InBody == authres \in {"none", "true"} /\ Truthy(auth_token)

C9_FailureIsolation ==
    (op \in Batches \cup {"process_event_list"} /\ InBody) =>
        /\ pc \in {"loop", "eloop"} => FetchIds = SubSeq(args.ids, 1, idx - 1)
        /\ pc \in {"pel_done", "efinish", "done"} => FetchIds = args.ids

C9_Witness ==
    /\ op = "run_automated_batch"
    /\ pc = "done"
    /\ Len(FetchLog) = 2
    /\ FetchLog[1].out = "raise"
    /\ FetchLog[2].out = "ok"
    /\ Sent("print")

\* ---- C10
\* C10: run_automated_batch, called as main() calls it and having got past
\* authentication to process its list, returns True exactly when every
\* identifier of the list has a result record with success = True.
C10_ExitStatus ==
    (op = "run_automated_batch" /\ args.authenticate /\ pc = "done"
     /\ summary # NoSummary) =>
        (ret = "true" <=>
            \A i \in 1..Len(args.ids) :
                /\ args.ids[i] \in DOMAIN results
                /\ results[args.ids[i]].success)

\* ---- C11
\* C11: run_enhanced_batch returns True only if every identifier of its list
\* was fetched and rendered: when every response was either an event object
\* or an HTTP failure, a True return leaves no identifier whose fetch failed
\* and none without a rendered report.
C11_EnhancedExitStatus ==
    (/\ op = "run_enhanced_batch" /\ pc = "done" /\ ret = "true"
     /\ \A i \in 1..Len(FetchLog) : FetchLog[i].out \in {"ok", "fail"}) =>
        /\ \A i \in 1..Len(FetchLog) : FetchLog[i].out = "ok"
        /\ Len(html_reports) = Len(args.ids)

\* ---- C12
\* C12: every result record of a failed identifier carries an error
\* description that is not None.
C12_FailureReason ==
    \A e \in DOMAIN results :
        ~results[e].success => results[e].error # "None"

\* ---- C17
\* C17: get_edr_report, called with a credential, sends exactly one request,
\* and when that request fails (a non-2xx status or a body that is not
\* JSON) it returns the empty record.
C17_FetchFailureIsEmpty ==
    (op = "get_edr_report" /\ pc = "done" /\ ~NotAuthenticated(tok0)) =>
        /\ Len(log) = 1
        /\ log[1].k = "fetch"
        /\ log[1].out \in {"fail", "raise"} => ret = "empty"

\* ---- C13
\* what a print call did, and whether its temporary file is on disk
IsAttempt(e) == e.k = "attempt"
Attempts == SelectSeq(outp.trace, IsAttempt)
TempExistsBefore(i) ==
    /\ \E j \in 1..(i - 1) : outp.trace[j].k = "write" /\ outp.trace[j].out = "ok"
    /\ ~\E j \in 1..(i - 1) : outp.trace[j].k = "remove" /\ outp.trace[j].out = "ok"
TempExistsAtReturn == TempExistsBefore(Len(outp.trace) + 1)
RemoveRefused ==
    \E j \in 1..Len(outp.trace) :
        outp.trace[j].k = "remove" /\ outp.trace[j].out = "oserror"

\* C13: when print_html_report has written its temporary file and returns
\* False, the temporary file no longer exists at the return, on every
\* platform (an os.remove refused by the operating system set aside).
C13_NoLeakedTempFile ==
    (/\ fn = "print_html_report"
     /\ inp.wo = "ok"
     /\ outp.ret = "false"
     /\ ~RemoveRefused) => ~TempExistsAtReturn

\* ---- C14
\* C14: the attempts of a print call are the first mechanisms of the
\* platform's list, in list order and each once; every attempt but the last
\* reported failure, and the call returns True exactly when the last attempt
\* reported success.
C14_FirstSuccessWins ==
    fn \in {"print_html_report", "print_pdf_file"} =>
        LET mechs == IF fn = "print_html_report" THEN HtmlMechs(inp.system)
                     ELSE PdfMechs(inp.system)
            n == Len(Attempts)
        IN /\ n <= Len(mechs)
           /\ \A i \in 1..n : Attempts[i].m = mechs[i]
           /\ \A i, j \in 1..n : i # j => Attempts[i].m # Attempts[j].m
           /\ \A i \in 1..(n - 1) : Attempts[i].out # "ok"
           /\ outp.ret = "true" <=> (n > 0 /\ Attempts[n].out = "ok")

C14_Witness ==
    /\ fn = "print_html_report"
    /\ inp.system = "linux"
    /\ Len(Attempts) = 3
    /\ Attempts[1].out = "fail"
    /\ Attempts[2].out = "fail"
    /\ Attempts[3].out = "ok"
    /\ outp.ret = "true"

\* ---- C15
\* C15: a print call on a platform the code knows returns False only after
\* every mechanism of the platform's list was attempted and reported failure.
C15_FailedOnlyAfterAll ==
    (/\ fn \in {"print_html_report", "print_pdf_file"}
     /\ inp.system # "other"
     /\ inp.wo = "ok"
     /\ outp.ret = "false") =>
        LET mechs == IF fn = "print_html_report" THEN HtmlMechs(inp.system)
                     ELSE PdfMechs(inp.system)
        IN /\ Len(Attempts) = Len(mechs)
           /\ \A i \in 1..Len(Attempts) : Attempts[i].out # "ok"

\* ---- C16
\* C16: the temporary file of print_html_report exists at every mechanism
\* attempt; when a mechanism reports success the call sleeps, then makes its
\* only removal as its last step, and returns True whether or not the
\* removal worked.
C16_DeleteAfterDelay ==
    fn = "print_html_report" =>
        LET t == outp.trace
            n == Len(t)
        IN /\ \A i \in 1..n : t[i].k = "attempt" => TempExistsBefore(i)
           /\ (\E i \in 1..n : t[i].k = "attempt" /\ t[i].out = "ok") =>
                /\ outp.ret = "true"
                /\ n >= 4
                /\ t[n].k = "remove"
                /\ t[n - 1].k = "sleep"
                /\ t[n - 2].k = "attempt" /\ t[n - 2].out = "ok"
                /\ \A i \in 1..(n - 1) : t[i].k # "remove"

C16_Witness ==
    /\ fn = "print_html_report"
    /\ inp.system = "windows"
    /\ Len(Attempts) = 2
    /\ Attempts[2].out = "ok"
    /\ inp.rm = "oserror"
    /\ outp.ret = "true"
    /\ TempExistsAtReturn

\* ---- C19
\* C19 as stated: a code that is a key of the table gets the table's label,
\* every other code gets the prefix followed by the code, and "N/A" gets
\* "N/A".
C19_DescribeByKey ==
    /\ fn = "get_event_type_description" =>
          /\ inp.code \in DOMAIN event_type_codes => outp.text = event_type_codes[inp.code]
          /\ (inp.code \notin DOMAIN event_type_codes /\ inp.code # "N/A") =>
                outp.text = "Event Type " \o inp.code
          /\ inp.code = "N/A" => outp.text = "N/A"
    /\ fn = "get_event_status_description" =>
          /\ inp.code \in DOMAIN event_status_codes => outp.text = event_status_codes[inp.code]
          /\ (inp.code \notin DOMAIN event_status_codes /\ inp.code # "N/A") =>
                outp.text = "Status " \o inp.code
          /\ inp.code = "N/A" => outp.text = "N/A"

\* C19, amended: the code is looked up by its upper-cased form. A key of the
\* table gets its label, and so does a code that differs from a key only in
\* letter case; "N/A" and the empty code get "N/A"; every other code gets
\* the prefix followed by the code as given.
DescribesAs(table, prefix) ==
    /\ inp.code \in DOMAIN table => outp.text = table[inp.code]
    /\ inp.code \in {"N/A", ""} => outp.text = "N/A"
    /\ \A key \in DOMAIN table : Upper(inp.code) = key => outp.text = table[key]
    /\ (inp.code \notin {"N/A", ""} /\ Upper(inp.code) \notin DOMAIN table) =>
          outp.text = prefix \o inp.code

C19_DescribeByUpperCasedKey ==
    /\ fn = "get_event_type_description" =>
          DescribesAs(event_type_codes, "Event Type ")
    /\ fn = "get_event_status_description" =>
          DescribesAs(event_status_codes, "Status ")

C19_Witness ==
    /\ fn = "get_event_type_description"
    /\ inp.code = "demo"
    /\ outp.text = "Demonstration"

\* ---- C18
\* a key the payload lacks: the key itself, or for an instruction text the
\* demoInstructions object that would hold it
Missing(p, f) ==
    \/ f \in p.absent
    \/ f \in InstructionFields /\ "demoInstructions" \in p.absent
IsRender == fn \in {"generate_html_report", "generate_consolidated_pdf_reportlab"}

C20_HeaderShowsLabels ==
    (IsRender /\ {"demoClassCode", "demoStatusCode"} \cap inp.payload.absent = {}) =>
        /\ inp.payload.type = "45" =>
              outp.shown["demoClassCode"] = "Food Demo/Sampling"
        /\ inp.payload.status = "2" =>
              outp.shown["demoStatusCode"] = "Active/Scheduled"

\* ---- C21
\* C21: in both renderers the items table has exactly one row per item of
\* itemDetails, in the order of itemDetails, and the row of an item shows
\* that item's number.
C21_OneRowPerItem ==
    (IsRender /\ "itemDetails" \notin inp.payload.absent) =>
        LET items == inp.payload.items
        IN /\ Len(outp.item_rows) = Len(items)
           /\ \A i \in 1..Len(items) :
                 items[i] \in ItemNbrs => outp.item_rows[i].itemNbr = items[i]

C21_Witness ==
    /\ fn = "generate_consolidated_pdf_reportlab"
    /\ inp.payload.absent = {}
    /\ inp.payload.items = <<"67890", "12345">>
    /\ Len(outp.item_rows) = 2
    /\ outp.item_rows[1].itemNbr = "67890"
    /\ outp.item_rows[2].itemNbr = "12345"

IsSection(x) == x.k = "section"
SectionsOf(story) == SelectSeq(story, IsSection)

\* C23: with reportlab present and N >= 1 records, the story starts with the
\* cover page, whose summary table has one row per record in input order,
\* followed by exactly N sections in input order, each right after a page
\* break; doc.build is called once, and when it succeeds the supplied
\* filename is returned.
C23_CoverThenSections ==
    (/\ fn = "generate_consolidated_pdf_reportlab list"
     /\ inp.lib = "reportlab"
     /\ Len(inp.events) >= 1) =>
        LET st == outp.story
            n == Len(inp.events)
        IN /\ st[1].k = "cover"
           /\ Len(st[1].rows) = n
           /\ \A i \in 1..n :
                 st[1].rows[i].event_number = inp.events[i].id
           /\ \A j \in 2..Len(st) : st[j].k # "cover"
           /\ Len(SectionsOf(st)) = n
           /\ \A i \in 1..n :
                 SectionsOf(st)[i].body.shown["demoId"] = inp.events[i].id
           /\ \A j \in 1..Len(st) :
                 st[j].k = "section" => (j > 1 /\ st[j - 1].k = "PageBreak")
           /\ Len(outp.builds) = 1
           /\ (inp.bo = "ok" /\ inp.filename # "") => outp.ret = inp.filename

C23_Witness ==
    /\ fn = "generate_consolidated_pdf_reportlab list"
    /\ inp.lib = "reportlab"
    /\ inp.bo = "ok"
    /\ inp.filename = "out.pdf"
    /\ Len(inp.events) = 2
    /\ inp.events[1].id = "606035"
    /\ inp.events[2].id = "606034"
    /\ Len(outp.story) = 5
    /\ outp.story[4].k = "PageBreak"
    /\ outp.story[5].body.shown["demoId"] = "606034"
    /\ outp.ret = "out.pdf"

\* ---- C24
CountOf(k) == Cardinality({i \in 1..Len(log) : log[i].k = k})

\* C24: within one call the login sequence runs at most once: every login
\* step and the prompt for the one-time code occur at most once; a rejected
\* code ends the login with failure, with nothing sent after step 3; and
\* every fetch of the call carries the credential the generator holds.
C24_NoRetryInLogin ==
    /\ \A k \in StepKinds \cup {"prompt"} : CountOf(k) <= 1
    /\ stepres[3] = "false" =>
          /\ authres = "false"
          /\ log[Len(log)].k = "step3"
          /\ pc \in {"auth_done", "done"}
    /\ \A i \in 1..Len(log) : log[i].k = "fetch" => log[i].tok = auth_token

C24_Witness ==
    /\ op = "run_automated_batch"
    /\ pc = "done"
    /\ stepres[3] = "false"
    /\ CountOf("prompt") = 1
    /\ CountOf("step3") = 1
    /\ Len(args.ids) = 2
    /\ ret = "false"

\* ---- C25
\* C25: authenticate() ends with True or False for every combination of
\* responses and cookies: when the step-6 response is JSON, whatever the
\* auth-token cookies hold, no exception leaves step 6.
C25_AuthenticateNeverRaises ==
    s6in.body = "json" => authres \in {"none", "true", "false"}

\* ---- C26
\* C26: run_automated_batch called with a non-empty list returns False
\* when the generator holds no credential as event processing starts.
C26_NoSuccessWithoutCredential ==
    (/\ op = "run_automated_batch"
     /\ pc = "done"
     /\ Len(args.ids) > 0
     /\ authres \in {"none", "true"}
     /\ ~Truthy(auth_token)) => ret = "false"

\* ---- C27
HasEntry(k, out) == \E i \in 1..Len(log) : log[i].k = k /\ log[i].out = out

\* C27: after process_event_list on a single identifier, with no exception
\* raised on the way, the record's 'saved' flag is True exactly when a
\* permanent copy of the report was written, and its 'generated' flag is
\* True exactly when a report was rendered.
C27_RecordIsTruthful ==
    (/\ op = "process_event_list"
     /\ pc = "pel_done"
     /\ Len(args.ids) = 1
     /\ args.ids[1] \in DOMAIN results
     /\ results[args.ids[1]].error # "exception") =>
        /\ results[args.ids[1]].saved <=> HasEntry("save", "ok")
        /\ results[args.ids[1]].generated <=> HasEntry("render", "ok")

\* ---- C28
IdsOf(ids) == {ids[i] : i \in 1..Len(ids)}
LastFetchOf(e) ==
    LET I == {i \in 1..Len(FetchLog) : FetchLog[i].id = e}
    IN FetchLog[CHOOSE i \in I : \A j \in I : j <= i]

\* C28: with a credential, process_event_list fetches once per occurrence of
\* an identifier and returns one record per distinct identifier, the record
\* of its last occurrence: the records are as many as the distinct
\* identifiers, and a record reports success only if the identifier's last
\* fetch returned the event.
C28_OneRecordPerDistinctId ==
    (/\ op \in {"process_event_list", "run_automated_batch"}
     /\ pc = "pel_done"
     /\ Truthy(auth_token)) =>
        /\ Len(FetchLog) = Len(args.ids)
        /\ DOMAIN results = IdsOf(args.ids)
        /\ Cardinality(DOMAIN results) = Cardinality(IdsOf(args.ids))
        /\ \A e \in DOMAIN results :
              /\ results[e].success => LastFetchOf(e).out = "ok"
              /\ results[e].error = "Failed to retrieve EDR data" =>
                    LastFetchOf(e).out = "fail"

C28_Witness ==
    /\ op = "process_event_list"
    /\ pc = "pel_done"
    /\ args.ids = <<"e1", "e1">>
    /\ args.print
    /\ Len(FetchLog) = 2
    /\ FetchLog[1].out = "ok"
    /\ FetchLog[2].out = "fail"
    /\ HasEntry("print", "true")
    /\ Cardinality(DOMAIN results) = 1
    /\ ~results["e1"].success

\* ---- C29
\* C29: when generate_and_print_edr_report with save_copy = True returns
\* True or False after a fetch that returned the event, the permanent copy
\* was written before the print was attempted, and the trace of the call is
\* fetch, render, save, print: nothing after the print touches the copy.
C29_SavedBeforePrint ==
    (/\ op = "generate_and_print_edr_report"
     /\ pc = "done"
     /\ args.save
     /\ ret \in {"true", "false"}
     /\ HasEntry("fetch", "ok")) =>
        /\ Len(log) = 4
        /\ log[3].k = "save" /\ log[3].out = "ok"
        /\ log[4].k = "print"
        /\ \A i, j \in 1..Len(log) :
              (log[i].k = "save" /\ log[j].k = "print") => i < j

C29_Witness ==
    /\ op = "generate_and_print_edr_report"
    /\ pc = "done"
    /\ args.save
    /\ ret = "false"
    /\ HasEntry("save", "ok")
    /\ HasEntry("print", "false")

\* ---- C30
\* C30: auth_token changes only in step 6 of the login and in
\* set_authentication_manually; every other step leaves it as it is, so
\* every fetch of a call that started with a credential carries that
\* credential.
C30_TokenOnlySetByLogin ==
    /\ [][auth_token' # auth_token =>
             (pc = "s6" \/ (pc = "idle" /\ pc' = "idle"))]_vars
    /\ []((Truthy(tok0) /\ op # "authenticate") =>
             /\ auth_token = tok0
             /\ \A i \in 1..Len(log) :
                   log[i].k \in {"fetch", "browse"} => log[i].tok = tok0)

C30_Witness ==
    /\ op = "run_automated_batch"
    /\ pc = "done"
    /\ tok0 = ManualTok
    /\ auth_token = ManualTok
    /\ Len(FetchLog) = 2
    /\ FetchLog[1].out = "fail"
    /\ FetchLog[2].tok = ManualTok
    /\ HasEntry("print", "false")

====
